---- MODULE Spec2Model ----
(***************************************************************************)
(* CheckpointsManager (src/checkpoints_manager.py): the run/epoch          *)
(* discovery and save/load/rollover state machine over a directory tree.   *)
(*                                                                         *)
(* The tree under experiment_dir_path is the variable disk: a function     *)
(* from the run directories to their sub-directories, each a set of        *)
(* checkpoint files.  An entry name is modelled by the digits it is        *)
(* formatted with ("run_07" is <<0,7>>, "12.pth" is <<1,2>>): the constant *)
(* prefix and suffix do not change the order in which sorted() lists them. *)
(* The manager runs as one process; pc is its position, at the granularity *)
(* of one filesystem call, so that an exception or a crash can fall        *)
(* between any two of them.                                                *)
(***************************************************************************)
EXTENDS Integers, Sequences, FiniteSets, TLC

\* ---------------------------------------------------------------- bounds
MaxBudget == 3
MaxRuns == 3
MaxOverrun == 1

\* ------------------------------------------------------- Python's None
NoneEpoch == 0 - 1
NonePath == <<>>

\* --------------------------------------------------------------- inputs
\* modules_to_track, in dict (registration) order
TrackedChoices ==
    { <<"model", "optimizer", "scheduler">>,
      <<"scheduler", "model", "optimizer">>,
      <<"model", "optimizer">> }

\* a module more than the three names of get_last_epoch_index
ExtraTrackedChoices ==
    { <<"model", "optimizer", "scheduler", "ema">> }

\* the directory names get_last_epoch_index inspects
HardcodedNames == {"model", "optimizer", "scheduler"}

VARIABLES
    modules_to_track,       \* sequence of module names
    epochs_per_run,
    disk,                   \* run name -> (sub-directory name -> set of files)
    start_epoch,
    current_run_dir_path,
    pc,                     \* "down", "idle", "save_loop", "load_loop",
                            \* "make_run_dir", "make_sub_dirs"
    i,                      \* position of the running loop in modules_to_track
    index,                  \* argument of the running make_run_dir
    op,                     \* the call running or last finished
    status,                 \* its outcome
    pre,                    \* the cursor when the call began
    written,                \* paths written by the call
    created,                \* directories created by the call
    loaded,                 \* paths loaded by the call
    crashSave,              \* the save a crash interrupted, until the save after restart
                            \* (phase 4: a crash elsewhere inside a save or a construction;
                            \* phase 5: the cursor of a first instance that only saved
                            \* successfully, when it stopped between two calls)
    retryOf,                \* during a save that follows a save whose write failed:
                            \* the cursor and the writes of the failed one
    okSaves,                \* saves of the first instance, all successful so far;
                            \* -1 after a failed save, a failed construction or a crash
    returned                \* <<v>> after an accessor returned v, <<>> otherwise

vars == <<modules_to_track, epochs_per_run, disk, start_epoch, current_run_dir_path,
          pc, i, index, op, status, pre, written, created, loaded,
          crashSave, retryOf, okSaves, returned>>

config == <<modules_to_track, epochs_per_run>>
cursor == <<current_run_dir_path, start_epoch>>

NoCrash == [run |-> NonePath, epoch |-> NoneEpoch, phase |-> 0]
NoRetry == [cursor |-> <<NonePath, NoneEpoch>>, written |-> {}]
Dirty == 0 - 1
NoReturn == <<>>

\* ------------------------------------------------------ names and order
RECURSIVE Digits(_)
Digits(n) == IF n < 10 THEN <<n>> ELSE Append(Digits(n \div 10), n % 10)

\* f'{n:02d}'
Fmt02(n) == IF n < 10 THEN <<0, n>> ELSE Digits(n)

\* int(...) of a digit string
RECURSIVE ParseInt(_)
ParseInt(s) ==
    IF s = <<>> THEN 0
    ELSE 10 * ParseInt(SubSeq(s, 1, Len(s) - 1)) + s[Len(s)]

\* Python's str <: lexicographic, a proper prefix is smaller
LexLess(a, b) ==
    \E k \in 1..(Len(b)) :
        /\ \A j \in 1..(k - 1) : j <= Len(a) /\ a[j] = b[j]
        /\ \/ k > Len(a)
           \/ k <= Len(a) /\ a[k] < b[k]

\* sorted(S)[-1]
SortedLast(S) == CHOOSE x \in S : \A y \in S : y = x \/ LexLess(y, x)

MinOf(S) == CHOOSE x \in S : \A y \in S : x <= y

Range(s) == { s[k] : k \in 1..Len(s) }

\* ------------------------------------------------------------- the tree
EmptyDir == [n \in {} |-> {}]

IsDir(run, name) == run \in DOMAIN disk /\ name \in DOMAIN disk[run]

MakeDir(d, run) ==
    [r \in DOMAIN d \cup {run} |-> IF r = run THEN EmptyDir ELSE d[r]]

MakeSubDir(d, run, name) ==
    [d EXCEPT ![run] =
        [n \in DOMAIN d[run] \cup {name} |-> IF n = name THEN {} ELSE d[run][n]]]

WriteFile(d, run, name, file) ==
    [d EXCEPT ![run] = [d[run] EXCEPT ![name] = d[run][name] \cup {file}]]

\* ------------------------------------------------- the manager's helpers
get_checkpoint_module_path(name, epoch) ==
    <<current_run_dir_path, name, Fmt02(epoch)>>

get_number_of_runs == Cardinality(DOMAIN disk)

get_run_index_from_path(run_dir_path) == ParseInt(run_dir_path)

get_last_run_dir_path == SortedLast(DOMAIN disk)

\* _get_last_epoch_index, for a directory that exists
_get_last_epoch_index(run, name) ==
    IF disk[run][name] = {} THEN 0 - 1
    ELSE ParseInt(SortedLast(disk[run][name]))

\* _get_last_epoch_index raises NotADirectoryError
ScanRaises(run) == \E n \in HardcodedNames : ~IsDir(run, n)

get_last_epoch_index(run) ==
    MinOf({ _get_last_epoch_index(run, n) : n \in HardcodedNames })

is_checkpoint_dir_full(run) == get_last_epoch_index(run) = epochs_per_run - 1

is_run_completed(run) == is_checkpoint_dir_full(run)

\* --------------------------------------------------------- bookkeeping
Errors == {"NotADirectoryError", "FileExistsError", "OSError", "WriteError",
           "FileNotFoundError", "NameError"}

\* an exception leaves the constructor without an instance, a method with one
Raised(who) == IF who = "init" THEN "down" ELSE "idle"

BeginCall(name) ==
    /\ op' = name
    /\ pre' = cursor
    /\ written' = {}
    /\ created' = {}
    /\ loaded' = {}

Start(choices) ==
    /\ modules_to_track \in choices
    /\ epochs_per_run \in 1..MaxBudget
    /\ disk = [r \in {} |-> EmptyDir]
    /\ start_epoch = NoneEpoch
    /\ current_run_dir_path = NonePath
    /\ pc = "down"
    /\ i = 0
    /\ index = 0
    /\ op = "none"
    /\ status = "none"
    /\ pre = <<NonePath, NoneEpoch>>
    /\ written = {}
    /\ created = {}
    /\ loaded = {}
    /\ crashSave = NoCrash
    /\ retryOf = NoRetry
    /\ okSaves = 0
    /\ returned = NoReturn

Init == Start(TrackedChoices)

InitExtra == Start(ExtraTrackedChoices)

\* ------------------------------------------------- scan_experiment_dir
\* The reads of one scan, up to its first write: the tree has one writer,
\* so nothing changes between the listings.
scan_experiment_dir(who) ==
    IF get_number_of_runs = 0
    THEN /\ pc' = "make_run_dir"
         /\ index' = 0
         /\ i' = 0
         /\ status' = "running"
         /\ UNCHANGED <<start_epoch, current_run_dir_path>>
    ELSE LET last_run_dir_path == get_last_run_dir_path IN
         IF ScanRaises(last_run_dir_path)
         THEN /\ pc' = Raised(who)
              /\ status' = "NotADirectoryError"
              /\ UNCHANGED <<start_epoch, current_run_dir_path, i, index>>
         ELSE IF is_run_completed(last_run_dir_path)
         THEN /\ pc' = "make_run_dir"
              /\ index' = get_run_index_from_path(last_run_dir_path) + 1
              /\ i' = 0
              /\ status' = "running"
              /\ UNCHANGED <<start_epoch, current_run_dir_path>>
         ELSE /\ current_run_dir_path' = last_run_dir_path
              /\ start_epoch' = get_last_epoch_index(last_run_dir_path) + 1
              /\ index' = index
              /\ IF who = "load" /\ start_epoch' # 0
                 THEN pc' = "load_loop" /\ i' = 1 /\ status' = "running"
                 ELSE pc' = "idle" /\ i' = 0 /\ status' = "ok"

\* __init__
Construct ==
    /\ pc = "down"
    /\ BeginCall("init")
    /\ returned' = NoReturn
    /\ scan_experiment_dir("init")
    /\ crashSave' = IF crashSave.phase = 1 THEN [crashSave EXCEPT !.phase = 2] ELSE NoCrash
    /\ retryOf' = NoRetry
    /\ okSaves' = IF status' \in Errors THEN Dirty ELSE okSaves
    /\ UNCHANGED <<config, disk>>

\* ---------------------------------------------------------- make_run_dir
\* os.makedirs(run_dir_path)
MakeRunDir ==
    /\ pc = "make_run_dir"
    /\ index < MaxRuns
    /\ LET run_dir_path == Fmt02(index) IN
       \/ /\ run_dir_path \notin DOMAIN disk
          /\ disk' = MakeDir(disk, run_dir_path)
          /\ created' = created \cup {<<run_dir_path>>}
          /\ pc' = "make_sub_dirs"
          /\ i' = 1
          /\ UNCHANGED <<status, okSaves>>
       \/ /\ status' = IF run_dir_path \in DOMAIN disk THEN "FileExistsError" ELSE "OSError"
          /\ pc' = Raised(op)
          /\ i' = 0
          /\ okSaves' = IF op = "load" THEN okSaves ELSE Dirty
          /\ UNCHANGED <<disk, created>>
    /\ UNCHANGED <<config, returned, start_epoch, current_run_dir_path, index, op, pre, written,
                   loaded, crashSave, retryOf>>

\* os.makedirs(os.path.join(run_dir_path, module_name)), one module per step
MakeSubDirs ==
    /\ pc = "make_sub_dirs"
    /\ i <= Len(modules_to_track)
    /\ LET run_dir_path == Fmt02(index)
           module_name == modules_to_track[i] IN
       \/ /\ disk' = MakeSubDir(disk, run_dir_path, module_name)
          /\ created' = created \cup {<<run_dir_path, module_name>>}
          /\ i' = i + 1
          /\ UNCHANGED <<pc, status, okSaves>>
       \/ /\ status' = "OSError"
          /\ pc' = Raised(op)
          /\ i' = 0
          /\ okSaves' = IF op = "load" THEN okSaves ELSE Dirty
          /\ UNCHANGED <<disk, created>>
    /\ UNCHANGED <<config, returned, start_epoch, current_run_dir_path, index, op, pre, written,
                   loaded, crashSave, retryOf>>

\* self.start_epoch = 0; self.current_run_dir_path = run_dir_path
MakeRunDirFinish ==
    /\ pc = "make_sub_dirs"
    /\ i > Len(modules_to_track)
    /\ start_epoch' = 0
    /\ current_run_dir_path' = Fmt02(index)
    /\ pc' = "idle"
    /\ i' = 0
    /\ status' = "ok"
    /\ okSaves' = IF op = "save" /\ okSaves # Dirty THEN okSaves + 1 ELSE okSaves
    /\ UNCHANGED <<config, returned, disk, index, op, pre, written, created, loaded,
                   crashSave, retryOf>>

\* ------------------------------------------------------- save_checkpoint
SaveBegin ==
    /\ pc = "idle"
    /\ start_epoch < epochs_per_run + MaxOverrun
    /\ BeginCall("save")
    /\ returned' = NoReturn
    /\ pc' = "save_loop"
    /\ i' = 1
    /\ status' = "running"
    /\ crashSave' = IF crashSave.phase = 2 THEN [crashSave EXCEPT !.phase = 3] ELSE NoCrash
    /\ retryOf' = IF op = "save" /\ status = "WriteError"
                  THEN [cursor |-> pre, written |-> written]
                  ELSE NoRetry
    /\ UNCHANGED <<config, disk, start_epoch, current_run_dir_path, index, okSaves>>

\* SaveWrite with the epoch incremented inside the loop, after each write
SaveWrite_AdvancesInLoop ==
    /\ pc = "save_loop"
    /\ i <= Len(modules_to_track)
    /\ LET module_name == modules_to_track[i]
           path == get_checkpoint_module_path(module_name, start_epoch) IN
       \/ /\ IsDir(path[1], path[2])
          /\ disk' = WriteFile(disk, path[1], path[2], path[3])
          /\ written' = written \cup {path}
          /\ i' = i + 1
          /\ start_epoch' = start_epoch + 1
          /\ UNCHANGED <<pc, status, okSaves>>
       \/ /\ \/ /\ IsDir(path[1], path[2])
                /\ disk' = WriteFile(disk, path[1], path[2], path[3])
                /\ written' = written \cup {path}
             \/ UNCHANGED <<disk, written>>
          /\ status' = "WriteError"
          /\ pc' = "idle"
          /\ i' = 0
          /\ okSaves' = Dirty
          /\ UNCHANGED start_epoch
    /\ UNCHANGED <<config, returned, current_run_dir_path, index, op, pre, created,
                   loaded, crashSave, retryOf>>

\* SaveWrite with the epoch counted although the write failed
SaveWrite_CountsFailedWrite ==
    /\ pc = "save_loop"
    /\ i <= Len(modules_to_track)
    /\ LET module_name == modules_to_track[i]
           path == get_checkpoint_module_path(module_name, start_epoch) IN
       \/ /\ IsDir(path[1], path[2])
          /\ disk' = WriteFile(disk, path[1], path[2], path[3])
          /\ written' = written \cup {path}
          /\ i' = i + 1
          /\ UNCHANGED <<pc, status, okSaves, start_epoch>>
       \/ /\ \/ /\ IsDir(path[1], path[2])
                /\ disk' = WriteFile(disk, path[1], path[2], path[3])
                /\ written' = written \cup {path}
             \/ UNCHANGED <<disk, written>>
          /\ status' = "WriteError"
          /\ pc' = "idle"
          /\ i' = 0
          /\ okSaves' = Dirty
          /\ start_epoch' = start_epoch + 1
    /\ UNCHANGED <<config, returned, current_run_dir_path, index, op, pre, created,
                   loaded, crashSave, retryOf>>

\* torch.save(module.state_dict(), checkpoint_module_path), one module per step;
\* a write that fails may or may not leave its file behind
SaveWrite ==
    /\ pc = "save_loop"
    /\ i <= Len(modules_to_track)
    /\ LET module_name == modules_to_track[i]
           path == get_checkpoint_module_path(module_name, start_epoch) IN
       \/ /\ IsDir(path[1], path[2])
          /\ disk' = WriteFile(disk, path[1], path[2], path[3])
          /\ written' = written \cup {path}
          /\ i' = i + 1
          /\ UNCHANGED <<pc, status, okSaves>>
       \/ /\ \/ /\ IsDir(path[1], path[2])
                /\ disk' = WriteFile(disk, path[1], path[2], path[3])
                /\ written' = written \cup {path}
             \/ UNCHANGED <<disk, written>>
          /\ status' = "WriteError"
          /\ pc' = "idle"
          /\ i' = 0
          /\ okSaves' = Dirty
    /\ UNCHANGED <<config, returned, start_epoch, current_run_dir_path, index, op, pre, created,
                   loaded, crashSave, retryOf>>

\* SaveAdvance with the next run started one epoch late
SaveAdvance_LateRollover ==
    /\ pc = "save_loop"
    /\ i > Len(modules_to_track)
    /\ start_epoch' = start_epoch + 1
    /\ IF start_epoch' = epochs_per_run + 1
       THEN /\ pc' = "make_run_dir"
            /\ index' = get_run_index_from_path(current_run_dir_path) + 1
            /\ UNCHANGED <<status, okSaves>>
       ELSE /\ pc' = "idle"
            /\ status' = "ok"
            /\ okSaves' = IF okSaves # Dirty THEN okSaves + 1 ELSE okSaves
            /\ UNCHANGED index
    /\ i' = 0
    /\ UNCHANGED <<config, returned, disk, current_run_dir_path, op, pre, written, created, loaded,
                   crashSave, retryOf>>

\* SaveAdvance with the epoch wrapped to 0 inside the same run at the budget
SaveAdvance_WrapsInPlace ==
    /\ pc = "save_loop"
    /\ i > Len(modules_to_track)
    /\ start_epoch' = IF start_epoch + 1 = epochs_per_run THEN 0 ELSE start_epoch + 1
    /\ pc' = "idle"
    /\ status' = "ok"
    /\ okSaves' = IF okSaves # Dirty THEN okSaves + 1 ELSE okSaves
    /\ i' = 0
    /\ UNCHANGED <<config, returned, disk, current_run_dir_path, index, op, pre, written, created,
                   loaded, crashSave, retryOf>>

\* self.start_epoch += 1, and the test that starts the next run
SaveAdvance ==
    /\ pc = "save_loop"
    /\ i > Len(modules_to_track)
    /\ start_epoch' = start_epoch + 1
    /\ IF start_epoch' = epochs_per_run
       THEN /\ pc' = "make_run_dir"
            /\ index' = get_run_index_from_path(current_run_dir_path) + 1
            /\ UNCHANGED <<status, okSaves>>
       ELSE /\ pc' = "idle"
            /\ status' = "ok"
            /\ okSaves' = IF okSaves # Dirty THEN okSaves + 1 ELSE okSaves
            /\ UNCHANGED index
    /\ i' = 0
    /\ UNCHANGED <<config, returned, disk, current_run_dir_path, op, pre, written, created, loaded,
                   crashSave, retryOf>>

\* -------------------------------------------------- load_last_checkpoint
LoadBegin ==
    /\ pc = "idle"
    /\ BeginCall("load")
    /\ returned' = NoReturn
    /\ scan_experiment_dir("load")
    /\ crashSave' = IF crashSave.phase = 2 THEN crashSave ELSE NoCrash
    /\ retryOf' = NoRetry
    /\ UNCHANGED <<config, disk, okSaves>>

\* module.load_state_dict(torch.load(checkpoint_module_path)), one module per step
LoadModule ==
    /\ pc = "load_loop"
    /\ i <= Len(modules_to_track)
    /\ LET module_name == modules_to_track[i]
           path == get_checkpoint_module_path(module_name, start_epoch - 1) IN
       IF IsDir(path[1], path[2]) /\ path[3] \in disk[path[1]][path[2]]
       THEN /\ loaded' = loaded \cup {path}
            /\ IF i = Len(modules_to_track)
               THEN pc' = "idle" /\ i' = 0 /\ status' = "ok"
               ELSE pc' = pc /\ i' = i + 1 /\ status' = status
       ELSE /\ status' = "FileNotFoundError"
            /\ pc' = "idle"
            /\ i' = 0
            /\ UNCHANGED loaded
    /\ UNCHANGED <<config, returned, disk, start_epoch, current_run_dir_path, index, op, pre,
                   written, created, crashSave, retryOf, okSaves>>

\* ----------------------------------------------------------------- crash
\* The process dies between two steps; only the tree survives.
Crash ==
    /\ pc # "down"
    /\ pre' = <<NonePath, NoneEpoch>>
    /\ pc' = "down"
    /\ start_epoch' = NoneEpoch
    /\ current_run_dir_path' = NonePath
    /\ status' = "crashed"
    /\ returned' = NoReturn
    /\ i' = 0
    /\ index' = 0
    /\ crashSave' = IF pc = "save_loop" /\ i <= Len(modules_to_track)
                    THEN [run |-> current_run_dir_path, epoch |-> start_epoch, phase |-> 1]
                    ELSE IF op \in {"init", "save"} /\ pc # "idle"
                    THEN [NoCrash EXCEPT !.phase = 4]
                    ELSE IF pc = "idle" /\ okSaves # Dirty
                    THEN [run |-> current_run_dir_path, epoch |-> start_epoch, phase |-> 5]
                    ELSE NoCrash
    /\ retryOf' = NoRetry
    /\ okSaves' = Dirty
    /\ op' = "none"
    /\ written' = {}
    /\ created' = {}
    /\ loaded' = {}
    /\ UNCHANGED <<config, disk>>

Next ==
    \/ Construct
    \/ MakeRunDir
    \/ MakeSubDirs
    \/ MakeRunDirFinish
    \/ SaveBegin
    \/ SaveWrite
    \/ SaveAdvance
    \/ LoadBegin
    \/ LoadModule
    \/ Crash

Spec == Init /\ [][Next]_vars

\* the same manager tracking a fourth module
SpecExtra == InitExtra /\ [][Next]_vars

TypeOK ==
    /\ pc \in {"down", "idle", "save_loop", "load_loop", "make_run_dir", "make_sub_dirs"}
    /\ status \in Errors \cup {"none", "running", "ok", "crashed"}
    /\ op \in {"none", "init", "load", "save", "get_start_epoch",
              "get_current_run_dir_path"}
    /\ modules_to_track \in TrackedChoices \cup ExtraTrackedChoices
    /\ epochs_per_run \in 1..MaxBudget
    /\ pc = "down" => cursor = <<NonePath, NoneEpoch>>

\* ------------------------------------------------- vocabulary of the claims
Tracked == Range(modules_to_track)

Finished == status \in Errors \cup {"ok"}

\* the files one save writes at a cursor
Targets(c) == { <<c[1], n, Fmt02(c[2])>> : n \in Tracked }

NextRun(run) == Fmt02(ParseInt(run) + 1)

\* the run with the highest numeric index
NewestRun == CHOOSE r \in DOMAIN disk : \A q \in DOMAIN disk : ParseInt(q) <= ParseInt(r)

TrackedDirsExist(run) == \A n \in Tracked : IsDir(run, n)

HasEpoch(run, n, e) == \E f \in disk[run][n] : ParseInt(f) = e

\* the highest checkpoint index of a component, -1 for an empty directory
Highest(run, n) ==
    IF disk[run][n] = {} THEN 0 - 1
    ELSE CHOOSE e \in { ParseInt(f) : f \in disk[run][n] } :
             \A f \in disk[run][n] : ParseInt(f) <= e

TrackedMin(run) == MinOf({ Highest(run, n) : n \in Tracked })

TrackedComplete(run) == \A n \in Tracked : HasEpoch(run, n, epochs_per_run - 1)

\* ------------------------------------------------------------------- C1
\* C1: a save interrupted by a crash after writing epoch E for a strict prefix
\* of the tracked components is followed by a construction that succeeds with
\* the cursor (same run, E), and the save after it, when it succeeds, writes
\* exactly the epoch-E file of every tracked component.
ClaimC1 ==
    /\ (crashSave.phase = 2 /\ op = "init" /\ Finished) =>
           /\ status = "ok"
           /\ cursor = <<crashSave.run, crashSave.epoch>>
    /\ (crashSave.phase = 3 /\ op = "save" /\ status = "ok") =>
           written = Targets(<<crashSave.run, crashSave.epoch>>)

\* ------------------------------------------------------------------- C2
\* C2: when the scan of a construction or of load_last_checkpoint finds the last
\* run with every tracked directory present and not complete, it creates
\* nothing, the cursor is (that run, 1 + the minimum over the tracked components
\* of their highest index), and load_last_checkpoint loads exactly the files
\* of epoch (resume epoch - 1) of the tracked components.
ClaimC2 ==
    (/\ op \in {"init", "load"}
     /\ Finished
     /\ created = {}
     /\ DOMAIN disk # {}
     /\ TrackedDirsExist(NewestRun)
     /\ ~TrackedComplete(NewestRun)) =>
        /\ status = "ok"
        /\ cursor = <<NewestRun, TrackedMin(NewestRun) + 1>>
        /\ op = "load" =>
              loaded = IF start_epoch = 0 THEN {}
                       ELSE Targets(<<NewestRun, start_epoch - 1>>)

\* ------------------------------------------------------------------- C3
\* C3: a save_checkpoint that ends in an error leaves the cursor as it was
\* when the call began.
ClaimC3 == (op = "save" /\ status \in Errors) => cursor = pre

\* ------------------------------------------------------------------- C4
\* one step of the cursor: the next epoch, or epoch 0 of the next run at the budget
Advanced(c) ==
    IF c[2] + 1 = epochs_per_run THEN <<NextRun(c[1]), 0>> ELSE <<c[1], c[2] + 1>>

\* C4: a save whose write failed leaves the cursor unchanged; the save retried
\* after it starts from the same cursor, writes only the same run's files of the
\* same epoch, and when it succeeds it has written all of them (those of the
\* failed attempt included) and the cursor has advanced by exactly one step.
TheoremC4 ==
    /\ (op = "save" /\ status = "WriteError") => cursor = pre
    /\ (op = "save" /\ retryOf # NoRetry) =>
           /\ pre = retryOf.cursor
           /\ written \subseteq Targets(retryOf.cursor)
    /\ (op = "save" /\ retryOf # NoRetry /\ status = "ok") =>
           /\ written = Targets(retryOf.cursor)
           /\ retryOf.written \subseteq written
           /\ cursor = Advanced(retryOf.cursor)

WitnessC4 ==
    /\ op = "save"
    /\ retryOf # NoRetry
    /\ retryOf.written # {}
    /\ status = "ok"
    /\ cursor = <<retryOf.cursor[1], retryOf.cursor[2] + 1>>

\* ------------------------------------------------------------------- C5
\* C5: a successful save_checkpoint moves the cursor from (r, e) to (r, e+1)
\* when e+1 < B and to (r+1, 0) when e+1 = B; within a run the epoch grows by
\* exactly one per successful call.
TheoremC5 ==
    (op = "save" /\ status = "ok") =>
        /\ pre[2] + 1 < epochs_per_run => cursor = <<pre[1], pre[2] + 1>>
        /\ pre[2] + 1 = epochs_per_run => cursor = <<NextRun(pre[1]), 0>>
        /\ current_run_dir_path = pre[1] => start_epoch = pre[2] + 1

WitnessC5 ==
    /\ op = "save"
    /\ status = "ok"
    /\ epochs_per_run = MaxBudget
    /\ pre = <<Fmt02(0), epochs_per_run - 1>>
    /\ cursor = <<Fmt02(1), 0>>

\* ------------------------------------------------------------------- C6
\* a run directory as make_run_dir leaves it
FreshRun == [n \in Tracked |-> {}]

\* C6: from the empty root, with every save successful, the B-th save creates
\* run 1 with one empty sub-directory per tracked component and leaves the
\* cursor at (run 1, 0); the (B+1)-th save writes exactly the epoch-0 files of
\* run 1.
TheoremC6 ==
    /\ (op = "save" /\ status = "ok" /\ okSaves = epochs_per_run) =>
           /\ created = {<<Fmt02(1)>>} \cup { <<Fmt02(1), n>> : n \in Tracked }
           /\ disk[Fmt02(1)] = FreshRun
           /\ cursor = <<Fmt02(1), 0>>
    /\ (op = "save" /\ status = "running" /\ okSaves = epochs_per_run) =>
           /\ pre = <<Fmt02(1), 0>>
           /\ written \subseteq Targets(<<Fmt02(1), 0>>)
    /\ (op = "save" /\ status = "ok" /\ okSaves = epochs_per_run + 1) =>
           /\ pre = <<Fmt02(1), 0>>
           /\ written = Targets(<<Fmt02(1), 0>>)

WitnessC6 ==
    /\ op = "save"
    /\ status = "ok"
    /\ epochs_per_run = MaxBudget
    /\ okSaves = epochs_per_run + 1
    /\ cursor = <<Fmt02(1), 1>>

\* ------------------------------------------------------------------- C7
\* C7: on every tree a scan can meet, with the tracked directories of the last
\* run present, the scan takes the last run for complete exactly when every
\* tracked component holds the file of epoch B-1.
ClaimC7 ==
    (/\ pc \in {"down", "idle"}
     /\ DOMAIN disk # {}
     /\ TrackedDirsExist(get_last_run_dir_path)) =>
        ((/\ ~ScanRaises(get_last_run_dir_path)
          /\ is_run_completed(get_last_run_dir_path))
            <=> TrackedComplete(get_last_run_dir_path))

\* ------------------------------------------------------------------- C8
\* C8: on the empty root, construction followed by load_last_checkpoint ends
\* without error, with the cursor at (run 0, 0) and the tree holding run_00
\* with one empty sub-directory per tracked component and nothing else.
ClaimC8 ==
    (op = "load" /\ Finished /\ okSaves = 0) =>
        /\ status = "ok"
        /\ cursor = <<Fmt02(0), 0>>
        /\ disk = [r \in {Fmt02(0)} |-> FreshRun]

\* ------------------------------------------------------------------- C9
\* C9: between operations the cursor's epoch lies in [0, B), and every
\* checkpoint file of every run has an epoch index in [0, B).
ClaimC9 ==
    /\ pc = "idle" => start_epoch \in 0..(epochs_per_run - 1)
    /\ \A r \in DOMAIN disk : \A n \in DOMAIN disk[r] : \A f \in disk[r][n] :
           ParseInt(f) \in 0..(epochs_per_run - 1)

\* ------------------------------------------------------------------ C10
\* C10: on every tree a scan can meet, the scan raises NotADirectoryError
\* exactly when a tracked component's sub-directory is absent under the last
\* run; a scan that raised has created nothing and left the cursor unchanged.
ClaimC10 ==
    /\ (pc \in {"down", "idle"} /\ DOMAIN disk # {}) =>
           (ScanRaises(get_last_run_dir_path)
               <=> ~TrackedDirsExist(get_last_run_dir_path))
    /\ (op \in {"init", "load"} /\ status = "NotADirectoryError") =>
           /\ created = {}
           /\ cursor = pre

\* ------------------------------------------------------------------- C11
\* C11: a load_last_checkpoint called while the cursor's epoch is 0 loads no
\* file and creates no directory, and it ends without error with the cursor
\* it started from.
ClaimC11 ==
    (op = "load" /\ pre[2] = 0) =>
        /\ loaded = {}
        /\ created = {}
        /\ Finished => (status = "ok" /\ cursor = pre)

\* ------------------------------------------------------- long histories
\* Trees that only a long history builds, taken where a stopped process left
\* them (the state Crash leaves from "idle"): the tracked components are the
\* three of get_last_epoch_index, and every earlier save succeeded.
LongRuns == 100
LongBudget == 102

\* a component directory holding the epochs 0..(e - 1)
Epochs(e) == { Fmt02(k) : k \in 0..(e - 1) }

\* runs 0..n of budget b: the runs below n complete, run n with e epochs
TreeAfter(n, b, e) ==
    [r \in { Fmt02(k) : k \in 0..n } |->
        [c \in HardcodedNames |-> IF r = Fmt02(n) THEN Epochs(e) ELSE Epochs(b)]]

Stopped(b, d) ==
    /\ modules_to_track = <<"model", "optimizer", "scheduler">>
    /\ epochs_per_run = b
    /\ disk = d
    /\ start_epoch = NoneEpoch
    /\ current_run_dir_path = NonePath
    /\ pc = "down"
    /\ i = 0
    /\ index = 0
    /\ op = "none"
    /\ status = "crashed"
    /\ pre = <<NonePath, NoneEpoch>>
    /\ written = {}
    /\ created = {}
    /\ loaded = {}
    /\ crashSave = NoCrash
    /\ retryOf = NoRetry
    /\ okSaves = Dirty
    /\ returned = NoReturn

\* after n rollovers of budget 1, or after e saves of one long run
InitLong ==
    \/ \E n \in 0..LongRuns : Stopped(1, TreeAfter(n, 1, 0))
    \/ \E e \in 0..(LongBudget - 1) : Stopped(LongBudget, TreeAfter(0, LongBudget, e))

\* a step of a history without environment failures: no OSError, no failed
\* write, and the process stops only between two calls
CleanStep ==
    /\ status' \notin {"OSError", "WriteError"}
    /\ status' = "crashed" => pc = "idle"

NextClean ==
    \/ Construct /\ CleanStep
    \/ MakeRunDir /\ CleanStep
    \/ MakeSubDirs /\ CleanStep
    \/ MakeRunDirFinish /\ CleanStep
    \/ SaveBegin /\ CleanStep
    \/ SaveWrite /\ CleanStep
    \/ SaveAdvance /\ CleanStep
    \/ LoadBegin /\ CleanStep
    \/ LoadModule /\ CleanStep
    \/ Crash /\ CleanStep

SpecLong == InitLong /\ [][NextClean]_vars

\* ------------------------------------------------------------------- C12
\* C12: on a tree whose run directories are those the manager created (indices
\* 0..n), a scan that creates nothing makes the run with the highest numeric
\* index the current run, and a scan that starts a new run gives it the index
\* after the highest one.
ClaimC12 ==
    (op \in {"init", "load"} /\ created = {} /\ DOMAIN disk # {}) =>
        /\ (pc \in {"idle", "load_loop"} /\ status \in {"ok", "running"}) =>
               current_run_dir_path = NewestRun
        /\ pc = "make_run_dir" =>
               index = get_run_index_from_path(NewestRun) + 1

\* ------------------------------------------------------------ accessors
\* get_start_epoch
GetStartEpoch ==
    /\ pc = "idle"
    /\ BeginCall("get_start_epoch")
    /\ returned' = <<start_epoch>>
    /\ status' = "ok"
    /\ UNCHANGED <<config, disk, start_epoch, current_run_dir_path, pc, i, index,
                   crashSave, retryOf, okSaves>>

\* get_current_run_dir_path: its parameter is named slef, so the self of its
\* body is an unbound name and the return statement raises
GetCurrentRunDirPath ==
    /\ pc = "idle"
    /\ BeginCall("get_current_run_dir_path")
    /\ returned' = NoReturn
    /\ status' = "NameError"
    /\ UNCHANGED <<config, disk, start_epoch, current_run_dir_path, pc, i, index,
                   crashSave, retryOf, okSaves>>

NextApi ==
    \/ Next
    \/ GetStartEpoch
    \/ GetCurrentRunDirPath

\* the manager with its accessors
SpecApi == Init /\ [][NextApi]_vars

\* ------------------------------------------------------------------- C13
\* C13: get_start_epoch returns the cursor's epoch and get_current_run_dir_path
\* returns the cursor's run (after a rollover, the new run); both end without
\* error and leave the cursor and the tree as they were.
ClaimC13 ==
    /\ op = "get_start_epoch" =>
           /\ status = "ok"
           /\ returned = <<start_epoch>>
           /\ cursor = pre
    /\ op = "get_current_run_dir_path" =>
           /\ status = "ok"
           /\ returned = <<current_run_dir_path>>
           /\ cursor = pre

\* ------------------------------------------------------------------- C14
\* C14: whenever a scan (of a construction or of load_last_checkpoint) has set
\* the cursor to an epoch N > 0, every tracked component has the file of epoch
\* N - 1 in the current run, and load_last_checkpoint never ends with a
\* missing checkpoint file.
ClaimC14 ==
    /\ (/\ op \in {"init", "load"}
        /\ pc \in {"idle", "load_loop"}
        /\ status \in {"ok", "running", "FileNotFoundError"}
        /\ created = {}
        /\ start_epoch > 0) =>
           \A n \in Tracked :
               /\ IsDir(current_run_dir_path, n)
               /\ Fmt02(start_epoch - 1) \in disk[current_run_dir_path][n]
    /\ op = "load" => status # "FileNotFoundError"

\* ------------------------------------------------------------------- C15
\* C15: the construction that follows a crash inside save_checkpoint or inside
\* a construction raises no error; when it returns a cursor without creating a
\* run, the cursor is in the newest run and its epoch is one past the last
\* epoch that every tracked component has there, and when it starts a new run
\* every tracked component of the newest run is complete.
ClaimC15 ==
    [][(pc = "down" /\ crashSave.phase \in {1, 4} /\ op' = "init") =>
           /\ status' \notin Errors
           /\ status' = "ok" =>
                  /\ TrackedDirsExist(NewestRun)
                  /\ current_run_dir_path' = NewestRun
                  /\ start_epoch' = TrackedMin(NewestRun) + 1
           /\ (pc' = "make_run_dir" /\ DOMAIN disk # {}) =>
                  /\ TrackedDirsExist(NewestRun)
                  /\ TrackedComplete(NewestRun)]_vars

\* ------------------------------------------------------------------- C16
\* the files of the first k tracked components, in registration order, at the
\* cursor a save began with
WrittenPrefix(k) == { <<pre[1], modules_to_track[j], Fmt02(pre[2])>> : j \in 1..k }

\* C16: while save_checkpoint is in its write loop the cursor is the one the
\* call began with and the files written so far are those of the first i - 1
\* components in registration order, each on disk; in every state of a save
\* whose cursor differs from the one it began with, the file of that epoch has
\* been written for every tracked component.
TheoremC16 ==
    op = "save" =>
        /\ pc = "save_loop" =>
               /\ cursor = pre
               /\ written = WrittenPrefix(i - 1)
        /\ cursor # pre => written = Targets(pre)
        /\ status \in {"running", "ok"} =>
               \A p \in written : IsDir(p[1], p[2]) /\ p[3] \in disk[p[1]][p[2]]

\* every component written, in an order that is not the alphabetical one, and
\* the cursor not yet advanced
WitnessC16 ==
    /\ op = "save"
    /\ pc = "save_loop"
    /\ modules_to_track = <<"scheduler", "model", "optimizer">>
    /\ i = Len(modules_to_track) + 1
    /\ start_epoch > 0
    /\ cursor = pre
    /\ written = Targets(pre)

\* ---------------------------------------------------- histories without failure
\* from an empty root: successful saves, loads, stops between two calls and
\* constructions
SpecClean == Init /\ [][NextClean]_vars

\* ------------------------------------------------------------------- C17
\* C17: in a history without failures and crashes, whenever the manager is
\* between two calls, every component directory of the current run holds
\* exactly the epochs 0..(cursor epoch - 1), every component directory of a
\* run with a lower index holds exactly the epochs 0..(budget - 1), and the
\* runs on disk are exactly those of index 0..(current run index).
ClaimC17 ==
    pc = "idle" =>
        /\ DOMAIN disk =
               { Fmt02(k) : k \in 0..get_run_index_from_path(current_run_dir_path) }
        /\ \A r \in DOMAIN disk : \A n \in DOMAIN disk[r] :
               disk[r][n] = IF r = current_run_dir_path
                            THEN Epochs(start_epoch)
                            ELSE Epochs(epochs_per_run)

\* ------------------------------------------------------------------- C18
\* C18: when a manager that only made successful saves since the empty root
\* stops between two calls, a manager constructed on the same tree with the
\* same tracked components and budget gets the cursor the first one had (after
\* a rollover: epoch 0 of the new run) and creates no directory.
ClaimC18 ==
    [][(pc = "down" /\ crashSave.phase = 5 /\ op' = "init") =>
           /\ status' = "ok"
           /\ cursor' = <<crashSave.run, crashSave.epoch>>]_vars

\* ------------------------------------------------------------------- C19
\* C19: when a construction or a load_last_checkpoint has ended without error
\* and load_last_checkpoint is called next, with nothing written in between,
\* its scan raises no error, keeps the cursor of the first scan, starts no new
\* run and leaves the tree as it is.
ClaimC19 ==
    [][(pc = "idle" /\ op \in {"init", "load"} /\ status = "ok" /\ op' = "load") =>
           /\ status' \in {"ok", "running"}
           /\ pc' \in {"idle", "load_loop"}
           /\ cursor' = cursor
           /\ disk' = disk]_vars

====
